---- MODULE Spec2Model ----
(***************************************************************************)
(* Model of src/index.js: the POST /gpt/advice handler of the NeuroFuel    *)
(* backend and the local advice generator buildMockAdvice it falls back to.*)
(*                                                                         *)
(* Numbers.  A JavaScript number is modelled as a record [k, v]: k = "num" *)
(* with v the value in tenths (255.3 is 2553), or k = "nan".  The inputs   *)
(* drawn below are multiples of 0.5 (exact as IEEE doubles, so sums and    *)
(* differences are exact) and the default 255.3; 0.8 * goalWeight is never *)
(* within 0.02 of a rounding boundary for such inputs, so Math.round is    *)
(* computed exactly.                                                       *)
(*                                                                         *)
(* Strings are sequences of one-character strings.                         *)
(*                                                                         *)
(* JSON values (what express.json() hands the handler) are records         *)
(* [t, n, s, a, bad]:                                                      *)
(*   t = "undefined"  the key is absent                                    *)
(*   t = "null"                                                            *)
(*   t = "number"     n is the value in tenths                             *)
(*   t = "string"     s is the text                                        *)
(*   t = "boolean"    n is 1 (true) or 0 (false)                           *)
(*   t = "array"      a is the sequence of its elements, each a string     *)
(*   t = "object"     bad = TRUE when the object has an own, non-callable  *)
(*                    "toString" member, e.g. {"toString": 1}              *)
(***************************************************************************)
EXTENDS Integers, Sequences, FiniteSets, TLC

VARIABLES
  hasOpenAIKey,  \* line 17: whether OPENAI_API_KEY is set
  useMockByEnv,  \* line 18: whether USE_MOCK is '1' or 'true'
  openai,        \* line 21: "client" or "null"
  pc,            \* where the handler of the request is
  req,           \* the request: its parsed body and its mock query parameter
  res,           \* the responses sent for the request, in order
  mockJson,      \* what the last call of buildMockAdvice ended with
  completion,    \* the state of the awaited completion call
  remoteCalls,   \* calls of openai.chat.completions.create made for the request
  clientUses     \* times the handler dereferenced openai

vars == <<hasOpenAIKey, useMockByEnv, openai, pc, req, res, mockJson, completion,
          remoteCalls, clientUses>>

----------------------------------------------------------------------------
(* Bounds of the sampled inputs *)

\* largest sampled weight / goalWeight on the grid, in pounds
MaxPounds == 1000

\* distance between two grid points, in pounds
GridStep == 100

\* length of the longest doctor note sampled
MaxNoteLen == 121

----------------------------------------------------------------------------
(* Program constants (tenths where the value is a weight or litres) *)

DefaultWeight == 2553
DefaultGoalWeight == 1900
ProteinFallbackGoal == 1900
ProteinMin == 120
ProteinMax == 230
HydrationBase == 30
HydrationUplift == 5
HydrationMin == 30
HydrationMax == 50
DeltaThreshold == 300
NoteSlice == 120

----------------------------------------------------------------------------
(* JavaScript values *)

Num(v) == [k |-> "num", v |-> v]
NaN == [k |-> "nan", v |-> 0]
Threw == [k |-> "throw", v |-> 0]

JUndefined == [t |-> "undefined", n |-> 0, s |-> <<>>, a |-> <<>>, bad |-> FALSE]
JNull == [t |-> "null", n |-> 0, s |-> <<>>, a |-> <<>>, bad |-> FALSE]
JNumber(x) == [t |-> "number", n |-> x, s |-> <<>>, a |-> <<>>, bad |-> FALSE]
JString(x) == [t |-> "string", n |-> 0, s |-> x, a |-> <<>>, bad |-> FALSE]
JBoolean(b) == [t |-> "boolean", n |-> IF b THEN 1 ELSE 0, s |-> <<>>, a |-> <<>>, bad |-> FALSE]
JArray(x) == [t |-> "array", n |-> 0, s |-> <<>>, a |-> x, bad |-> FALSE]
JObject(b) == [t |-> "object", n |-> 0, s |-> <<>>, a |-> <<>>, bad |-> b]

Digits == <<"0", "1", "2", "3", "4", "5", "6", "7", "8", "9">>

IsDigit(c) == \E i \in 1..10 : Digits[i] = c

DigitVal(c) == (CHOOSE i \in 1..10 : Digits[i] = c) - 1

IsSpace(c) == c \in {" ", "\t", "\n"}

\* String.prototype.trim as StringToNumber applies it
RECURSIVE TrimLeft(_)
TrimLeft(s) == IF s # <<>> /\ IsSpace(Head(s)) THEN TrimLeft(Tail(s)) ELSE s

RECURSIVE TrimRight(_)
TrimRight(s) ==
  IF s # <<>> /\ IsSpace(s[Len(s)]) THEN TrimRight(SubSeq(s, 1, Len(s) - 1)) ELSE s

\* value of a run of decimal digits
RECURSIVE DigitsVal(_)
DigitsVal(s) ==
  IF s = <<>> THEN 0 ELSE 10 * DigitsVal(SubSeq(s, 1, Len(s) - 1)) + DigitVal(s[Len(s)])

AllDigits(s) == \A i \in 1..Len(s) : IsDigit(s[i])

\* an unsigned decimal literal, in tenths (the sampled inputs have at most one
\* fractional digit; a literal with more is outside what tenths can hold)
UnsignedToNumber(s) ==
  LET dots == {i \in 1..Len(s) : s[i] = "."}
  IN  IF dots = {} THEN
        IF s # <<>> /\ AllDigits(s) THEN Num(10 * DigitsVal(s)) ELSE NaN
      ELSE
        LET d == CHOOSE i \in dots : TRUE
            ip == SubSeq(s, 1, d - 1)
            fp == SubSeq(s, d + 1, Len(s))
        IN  IF Cardinality(dots) = 1 /\ AllDigits(ip) /\ AllDigits(fp)
               /\ Len(ip) + Len(fp) > 0 /\ Len(fp) <= 1
            THEN Num(10 * DigitsVal(ip) + DigitsVal(fp))
            ELSE NaN

\* StringToNumber: the empty or all-blank string is 0, a decimal literal is
\* its value, anything else is NaN
StringToNumber(str) ==
  LET s == TrimRight(TrimLeft(str))
  IN  IF s = <<>> THEN Num(0)
      ELSE IF Head(s) = "-" THEN
        LET u == UnsignedToNumber(Tail(s))
        IN  IF u.k = "num" THEN Num(0 - u.v) ELSE NaN
      ELSE IF Head(s) = "+" THEN UnsignedToNumber(Tail(s))
      ELSE UnsignedToNumber(s)

\* decimal digits of a natural number
RECURSIVE NatToString(_)
NatToString(n) ==
  IF n < 10 THEN <<Digits[n + 1]>> ELSE NatToString(n \div 10) \o <<Digits[(n % 10) + 1]>>

\* Number.prototype.toString of a value given in tenths
NumberToString(x) ==
  LET m == IF x < 0 THEN 0 - x ELSE x
      body == NatToString(m \div 10)
                \o (IF m % 10 = 0 THEN <<>> ELSE <<".">> \o NatToString(m % 10))
  IN  IF x < 0 THEN <<"-">> \o body ELSE body

\* Array.prototype.join(",") over string elements
RECURSIVE Join(_)
Join(a) ==
  IF a = <<>> THEN <<>>
  ELSE IF Len(a) = 1 THEN a[1]
  ELSE a[1] \o <<",">> \o Join(Tail(a))

ObjectObject == <<"[", "o", "b", "j", "e", "c", "t", " ", "O", "b", "j", "e", "c", "t", "]">>

\* whether converting the value to a primitive raises a TypeError
ThrowsOnToPrimitive(v) == v.t = "object" /\ v.bad

\* ToString of a value (String(v), `${v}`, v.toString()) when it does not raise
ToStringOf(v) ==
  CASE v.t = "string" -> v.s
    [] v.t = "number" -> NumberToString(v.n)
    [] v.t = "boolean" -> IF v.n = 1 THEN <<"t", "r", "u", "e">> ELSE <<"f", "a", "l", "s", "e">>
    [] v.t = "array" -> Join(v.a)
    [] v.t = "object" -> ObjectObject
    [] v.t = "null" -> <<"n", "u", "l", "l">>
    [] OTHER -> <<"u", "n", "d", "e", "f", "i", "n", "e", "d">>

\* Number(v)
ToNumber(v) ==
  CASE v.t = "number" -> Num(v.n)
    [] v.t = "string" -> StringToNumber(v.s)
    [] v.t = "boolean" -> Num(10 * v.n)
    [] v.t = "null" -> Num(0)
    [] v.t = "array" -> StringToNumber(Join(v.a))
    [] v.t = "object" -> IF v.bad THEN Threw ELSE NaN
    [] OTHER -> NaN

\* ToBoolean(v): what `if (v)` and `v || d` test
Truthy(v) ==
  CASE v.t \in {"undefined", "null"} -> FALSE
    [] v.t = "number" -> v.n # 0
    [] v.t = "string" -> v.s # <<>>
    [] v.t = "boolean" -> v.n = 1
    [] OTHER -> TRUE

\* v ?? d
Nullish(v) == v.t \in {"undefined", "null"}

----------------------------------------------------------------------------
(* Request bodies.  A userProfile is [t, weight, goalWeight]: t is its JSON *)
(* type, and weight and goalWeight are its members when t = "object".      *)

UProfile(t) == [t |-> t, weight |-> JUndefined, goalWeight |-> JUndefined]

UObject(w, g) == [t |-> "object", weight |-> w, goalWeight |-> g]

\* userProfile.<member>: undefined on anything but an object that has it
Member(userProfile, name) ==
  IF userProfile.t = "object"
  THEN (IF name = "weight" THEN userProfile.weight ELSE userProfile.goalWeight)
  ELSE JUndefined

----------------------------------------------------------------------------
(* buildMockAdvice, src/index.js lines 24-67 *)

\* the parameter defaults of line 24: they apply to undefined only
DefaultedProfile(userProfile) ==
  IF userProfile.t = "undefined" THEN UObject(JUndefined, JUndefined) ELSE userProfile

DefaultedProtocol(protocol) ==
  IF protocol.t = "undefined" THEN JString(<<"K", "e", "t", "o">>) ELSE protocol

DefaultedNotes(doctorNotes) ==
  IF doctorNotes.t = "undefined" THEN JString(<<>>) ELSE doctorNotes

\* reading a member of null raises a TypeError (lines 25, 26)
MemberAccessThrows(userProfile) == userProfile.t = "null"

\* line 25: Number(userProfile.weight ?? 255.3)
Weight(userProfile) ==
  LET m == Member(userProfile, "weight")
  IN  IF Nullish(m) THEN Num(DefaultWeight) ELSE ToNumber(m)

\* line 26: Number(userProfile.goalWeight ?? 190)
GoalWeight(userProfile) ==
  LET m == Member(userProfile, "goalWeight")
  IN  IF Nullish(m) THEN Num(DefaultGoalWeight) ELSE ToNumber(m)

\* line 27: Math.max(0, weight - goalWeight); NaN when either operand is NaN
Delta(weight, goalWeight) ==
  IF weight.k = "nan" \/ goalWeight.k = "nan" THEN NaN
  ELSE IF weight.v - goalWeight.v > 0 THEN Num(weight.v - goalWeight.v) ELSE Num(0)

\* Math.floor in place of Math.round
RoundPointEight_Floor(g) == (4 * g) \div 50

\* Math.round(0.8 * g) for g in tenths: floor(0.08 * g + 0.5)
RoundPointEight(g) == (4 * g + 25) \div 50

Min(a, b) == IF a < b THEN a ELSE b

Max(a, b) == IF a > b THEN a ELSE b

\* line 30: goalWeight || 190 replaces NaN and 0
ProteinBasis(goalWeight) ==
  IF goalWeight.k = "nan" \/ goalWeight.v = 0 THEN ProteinFallbackGoal ELSE goalWeight.v

\* ProteinG without the upper cap
ProteinG_NoCap(goalWeight) == Max(ProteinMin, RoundPointEight(ProteinBasis(goalWeight)))

\* line 30: Math.min(230, Math.max(120, Math.round(0.8 * (goalWeight || 190))))
ProteinG(goalWeight) ==
  Min(ProteinMax, Max(ProteinMin, RoundPointEight(ProteinBasis(goalWeight))))

\* delta >= 30 in place of delta > 30
DeltaLarge_Geq(delta) == delta.k = "num" /\ delta.v >= DeltaThreshold

\* line 33: delta > 30 is false for NaN
DeltaLarge(delta) == delta.k = "num" /\ delta.v > DeltaThreshold

\* line 33: Math.min(5, Math.max(3, 3 + (delta > 30 ? 0.5 : 0))), in tenths
HydrationL(delta) ==
  Min(HydrationMax,
      Max(HydrationMin, HydrationBase + (IF DeltaLarge(delta) THEN HydrationUplift ELSE 0)))

\* line 36: (protocol || 'Keto').toString()
NormalizedPhase(protocol) ==
  IF Truthy(protocol) THEN ToStringOf(protocol) ELSE <<"K", "e", "t", "o">>

PhaseThrows(protocol) == Truthy(protocol) /\ ThrowsOnToPrimitive(protocol)

UpperCase == <<"A", "B", "C", "D", "E", "F", "G", "H", "I", "J", "K", "L", "M",
               "N", "O", "P", "Q", "R", "S", "T", "U", "V", "W", "X", "Y", "Z">>

LowerCase == <<"a", "b", "c", "d", "e", "f", "g", "h", "i", "j", "k", "l", "m",
               "n", "o", "p", "q", "r", "s", "t", "u", "v", "w", "x", "y", "z">>

\* the case folding of the regular expressions' i flag
Fold(c) ==
  IF \E i \in 1..26 : UpperCase[i] = c
  THEN LowerCase[CHOOSE i \in 1..26 : UpperCase[i] = c]
  ELSE c

\* whether the literal lit occurs in s at position i, ignoring case
LiteralAt(s, i, lit) ==
  /\ i >= 1
  /\ i + Len(lit) - 1 <= Len(s)
  /\ \A j \in 1..Len(lit) : Fold(s[i + j - 1]) = lit[j]

\* the first position at or after i that holds no whitespace
RECURSIVE SkipSpaces(_, _)
SkipSpaces(s, i) == IF i <= Len(s) /\ IsSpace(s[i]) THEN SkipSpaces(s, i + 1) ELSE i

\* line 46: /fat\s*fast/i.test(s)
TestFatFast(s) ==
  \E i \in 1..Len(s) :
    /\ LiteralAt(s, i, <<"f", "a", "t">>)
    /\ LiteralAt(s, SkipSpaces(s, i + 3), <<"f", "a", "s", "t">>)

\* line 49: /psmf/i.test(s)
TestPsmf(s) == \E i \in 1..Len(s) : LiteralAt(s, i, <<"p", "s", "m", "f">>)

\* a rule of the list: the template (id) and what is interpolated into it
Rule(id, n, text) == [id |-> id, n |-> n, text |-> text]

\* lines 38-44
BaseRules(proteinG, hydrationL) ==
  << Rule("protein", proteinG, <<>>),
     Rule("hydration", hydrationL, <<>>),
     Rule("lastMeal", 0, <<>>),
     Rule("symptoms", 0, <<>>),
     Rule("movement", 0, <<>>) >>

FatFastRule == Rule("fatFast", 0, <<>>)

PsmfRule == Rule("psmf", 0, <<>>)

\* push in place of unshift
UnshiftFatFast_Push(rules, phase) ==
  IF TestFatFast(phase) THEN Append(rules, FatFastRule) ELSE rules

\* lines 46-48: rules.unshift(fat-fast rule)
UnshiftFatFast(rules, phase) == IF TestFatFast(phase) THEN <<FatFastRule>> \o rules ELSE rules

\* lines 49-51: rules.unshift(PSMF rule)
UnshiftPsmf(rules, phase) == IF TestPsmf(phase) THEN <<PsmfRule>> \o rules ELSE rules

\* String(doctorNotes).slice(0, 120)
Slice(s) == SubSeq(s, 1, Min(Len(s), NoteSlice))

\* lines 53-55: rules.push(doctor-note rule)
PushDoctorNote(rules, doctorNotes) ==
  IF Truthy(doctorNotes)
  THEN Append(rules, Rule("doctor", 0, Slice(ToStringOf(doctorNotes))))
  ELSE rules

NotesThrow(doctorNotes) == Truthy(doctorNotes) /\ ThrowsOnToPrimitive(doctorNotes)

\* the two phase checks in the other order
Rules_PsmfCheckedFirst(proteinG, hydrationL, phase, doctorNotes) ==
  PushDoctorNote(
    UnshiftFatFast(UnshiftPsmf(BaseRules(proteinG, hydrationL), phase), phase),
    doctorNotes)

\* lines 38-55
Rules(proteinG, hydrationL, phase, doctorNotes) ==
  PushDoctorNote(
    UnshiftPsmf(UnshiftFatFast(BaseRules(proteinG, hydrationL), phase), phase),
    doctorNotes)

NoAdvice == [st |-> "none", hydrationL |-> 0, proteinG |-> 0, phase |-> <<>>, rules |-> <<>>]

Raised == [st |-> "threw", hydrationL |-> 0, proteinG |-> 0, phase |-> <<>>, rules |-> <<>>]

\* whether any statement of buildMockAdvice raises
EngineThrows(userProfile, protocol, doctorNotes) ==
  \/ MemberAccessThrows(userProfile)
  \/ Weight(userProfile).k = "throw"
  \/ GoalWeight(userProfile).k = "throw"
  \/ PhaseThrows(protocol)
  \/ NotesThrow(doctorNotes)

\* buildMockAdvice({ userProfile, protocol, doctorNotes }): the serialized
\* payload (st = "json"; the constant notes member is left out), or the
\* exception it ends with (st = "threw")
buildMockAdvice(a) ==
  LET userProfile == DefaultedProfile(a.userProfile)
      protocol == DefaultedProtocol(a.protocol)
      doctorNotes == DefaultedNotes(a.doctorNotes)
  IN  IF EngineThrows(userProfile, protocol, doctorNotes) THEN Raised
      ELSE
        LET weight == Weight(userProfile)
            goalWeight == GoalWeight(userProfile)
            delta == Delta(weight, goalWeight)
            proteinG == ProteinG(goalWeight)
            hydrationL == HydrationL(delta)
            normalizedPhase == NormalizedPhase(protocol)
        IN  [st |-> "json",
             hydrationL |-> hydrationL,
             proteinG |-> proteinG,
             phase |-> normalizedPhase,
             rules |-> Rules(proteinG, hydrationL, normalizedPhase, doctorNotes)]

----------------------------------------------------------------------------
(* The request bodies and queries the model draws *)

\* weights on the grid, in tenths of a pound
GridWeights == {10 * GridStep * k : k \in 0..(MaxPounds \div GridStep)}

\* negative, fractional, boundary (150, 151, 287.5, 288 for the protein clamp;
\* 220, 220.5, 221 against a goal of 190 for the delta test) and very large
SpecialWeights ==
  {0 - 500, 5, 1500, 1510, 1900, 2200, 2205, 2210, 2875, 2880, 10000, 12000}

Text200 == <<"2", "0", "0">>

TextPadded == <<" ", "2", "5", "0", ".", "5", " ">>

TextAbc == <<"a", "b", "c">>

\* the values a weight or goalWeight member takes
MemberValues ==
  {JUndefined, JNull, JBoolean(TRUE), JBoolean(FALSE),
   JString(<<>>), JString(TextAbc), JString(Text200), JString(TextPadded),
   JArray(<<>>), JArray(<<Text200>>), JArray(<<Text200, Text200>>),
   JObject(FALSE), JObject(TRUE)}
  \cup {JNumber(x) : x \in GridWeights \cup SpecialWeights}

\* userProfile of every JSON type
Profiles ==
  {UProfile(t) : t \in {"undefined", "null", "number", "string", "boolean", "array"}}
  \cup {UObject(w, g) : w \in MemberValues, g \in MemberValues}

FewProfiles == {UProfile("undefined"), UProfile("null"), UObject(JNumber(3000), JNumber(1000))}

Keto == <<"K", "e", "t", "o">>

LabelFatFast == <<"F", "a", "t", " ", "F", "a", "s", "t">>

LabelFatfast == <<"f", "a", "t", "f", "a", "s", "t">>

LabelFatTabFast == <<"x", "F", "A", "T", " ", "\t", " ", "F", "A", "S", "T", "x">>

LabelFatDashFast == <<"f", "a", "t", "-", "f", "a", "s", "t">>

LabelFastFat == <<"f", "a", "s", "t", " ", "f", "a", "t">>

LabelPSMF == <<"P", "S", "M", "F">>

LabelPsmfInside == <<"m", "y", " ", "p", "S", "m", "F", " ", "w", "e", "e", "k">>

LabelPsMf == <<"P", "S", " ", "M", "F">>

LabelPsmfFatFast == LabelPSMF \o <<" ">> \o LabelFatFast

LabelFatFastPsmf == LabelFatfast \o <<"+">> \o LabelPSMF

\* the values the protocol member takes
Protocols ==
  {JUndefined, JNull, JString(<<>>), JNumber(0), JNumber(55), JBoolean(TRUE),
   JBoolean(FALSE), JArray(<<>>), JArray(<<LabelPSMF>>), JArray(<<LabelPSMF, LabelFatFast>>),
   JObject(FALSE), JObject(TRUE)}
  \cup {JString(l) : l \in {Keto, LabelFatFast, LabelFatfast, LabelFatTabFast,
                            LabelFatDashFast, LabelFastFat, LabelPSMF, LabelPsmfInside,
                            LabelPsMf, LabelPsmfFatFast, LabelFatFastPsmf}}

\* a note of n characters
NoteOfLen(n) == [i \in 1..n |-> IF i = n THEN "z" ELSE "y"]

\* the values the doctorNotes member takes
Notes ==
  {JUndefined, JNull, JString(<<>>), JNumber(0), JNumber(75), JBoolean(TRUE),
   JBoolean(FALSE), JArray(<<>>), JArray(<<TextAbc>>), JObject(FALSE), JObject(TRUE),
   JString(TextAbc), JString(NoteOfLen(NoteSlice)), JString(NoteOfLen(MaxNoteLen))}

Body(u, p, d) == [userProfile |-> u, protocol |-> p, doctorNotes |-> d]

\* every profile with the other members absent, and every protocol and note
\* with a few profiles
Bodies ==
  {Body(u, JUndefined, JUndefined) : u \in Profiles}
  \cup {Body(u, p, d) : u \in FewProfiles, p \in Protocols, d \in Notes}

\* req.query.mock
MockQueries == {"absent", "1", "true", "0"}

\* what the awaited completion can be when the call resolves: a completion
\* with choices[0].message.content, or one without (no choices, no message,
\* null content)
Completions == {"content", "malformed"}

\* what the awaited call can reject with
Failures == {"auth", "rateLimit", "network", "timeout"}

----------------------------------------------------------------------------
(* POST /gpt/advice, src/index.js lines 86-139.  One request is followed    *)
(* from its arrival to its end: the handler keeps nothing between requests. *)

NoRequest == [body |-> Body(UProfile("undefined"), JUndefined, JUndefined), mock |-> "absent"]

\* lines 89-90
ShouldMock(q) == useMockByEnv \/ q \in {"1", "true"} \/ ~hasOpenAIKey

\* lines 99-113: the prompt template converts protocol ?? "" and
\* doctorNotes ?? "" to strings, outside the try block
PromptThrows(b) ==
  \/ ~Nullish(b.protocol) /\ ThrowsOnToPrimitive(b.protocol)
  \/ ~Nullish(b.doctorNotes) /\ ThrowsOnToPrimitive(b.doctorNotes)

\* line 95: res.json({ result: mockJson })
MockResponse(m) == [status |-> 200, result |-> m, content |-> "none", warning |-> FALSE]

\* lines 123-124: res.json({ result: content }), content '' when the
\* completion has no choices[0].message.content
RemoteResponse(c) ==
  [status |-> 200, result |-> NoAdvice,
   content |-> IF c = "content" THEN "text" ELSE "empty", warning |-> FALSE]

\* lines 134-137: res.json({ result: mockJson, _warning: ... })
FallbackResponse(m) == [status |-> 200, result |-> m, content |-> "none", warning |-> TRUE]

\* the framework's answer to a handler that failed
ErrorResponse == [status |-> 500, result |-> NoAdvice, content |-> "error", warning |-> FALSE]

Init ==
  /\ hasOpenAIKey \in BOOLEAN
  /\ useMockByEnv \in BOOLEAN
  /\ openai = IF hasOpenAIKey THEN "client" ELSE "null"
  /\ pc = "idle"
  /\ req = NoRequest
  /\ res = <<>>
  /\ mockJson = NoAdvice
  /\ completion = "none"
  /\ remoteCalls = 0
  /\ clientUses = 0

\* lines 133-137, and line 94-95: call the engine and send its payload; when
\* the engine raises, the async handler's promise rejects and nothing is sent
ServeMock(b, asFallback) ==
  LET m == buildMockAdvice(b)
  IN  /\ mockJson' = m
      /\ IF m.st = "threw"
         THEN pc' = "rejected" /\ res' = res
         ELSE /\ pc' = "done"
              /\ res' = Append(res, IF asFallback THEN FallbackResponse(m) ELSE MockResponse(m))

\* lines 86-122: the handler up to its await
Receive(b, q) ==
  /\ pc = "idle"
  /\ req' = [body |-> b, mock |-> q]
  /\ UNCHANGED <<hasOpenAIKey, useMockByEnv, openai>>
  /\ IF ShouldMock(q)
     THEN /\ ServeMock(b, FALSE)
          /\ UNCHANGED <<completion, remoteCalls, clientUses>>
     ELSE IF PromptThrows(b)
     THEN /\ pc' = "rejected"
          /\ UNCHANGED <<res, mockJson, completion, remoteCalls, clientUses>>
     ELSE IF openai = "null"
     THEN \* openai.chat raises a TypeError inside the try block
          /\ clientUses' = clientUses + 1
          /\ ServeMock(b, TRUE)
          /\ UNCHANGED <<completion, remoteCalls>>
     ELSE /\ clientUses' = clientUses + 1
          /\ remoteCalls' = remoteCalls + 1
          /\ completion' = "pending"
          /\ pc' = "awaiting"
          /\ UNCHANGED <<res, mockJson>>

\* lines 117-124: the awaited call resolves
RemoteResolves(c) ==
  /\ pc = "awaiting"
  /\ completion' = c
  /\ res' = Append(res, RemoteResponse(c))
  /\ pc' = "done"
  /\ UNCHANGED <<hasOpenAIKey, useMockByEnv, openai, req, mockJson, remoteCalls, clientUses>>

\* lines 125-138: the awaited call rejects
RemoteRejects(e) ==
  /\ pc = "awaiting"
  /\ completion' = e
  /\ ServeMock(req.body, TRUE)
  /\ UNCHANGED <<hasOpenAIKey, useMockByEnv, openai, req, remoteCalls, clientUses>>

\* line 86: the handler is an async function, and what becomes of its
\* rejected promise is the router's business.  A router that ignores the
\* promise (Express 4) leaves the request unanswered.
RejectionIgnored ==
  /\ pc = "rejected"
  /\ pc' = "unanswered"
  /\ UNCHANGED <<hasOpenAIKey, useMockByEnv, openai, req, res, mockJson, completion,
                 remoteCalls, clientUses>>

\* A router that forwards the rejection to its error handler (Express 5)
\* answers 500.
RejectionHandled ==
  /\ pc = "rejected"
  /\ pc' = "errored"
  /\ res' = Append(res, ErrorResponse)
  /\ UNCHANGED <<hasOpenAIKey, useMockByEnv, openai, req, mockJson, completion,
                 remoteCalls, clientUses>>

\* a request arrives with any of the sampled bodies and queries
Arrive == pc = "idle" /\ \E b \in Bodies, q \in MockQueries : Receive(b, q)

Next ==
  \/ Arrive
  \/ \E c \in Completions : RemoteResolves(c)
  \/ \E e \in Failures : RemoteRejects(e)
  \/ RejectionIgnored
  \/ RejectionHandled

Spec == Init /\ [][Next]_vars

\* The event loop runs the router's reaction to a rejected handler.  Nothing
\* in the source bounds the wait for the completion call, so its settling is
\* not assumed.
FairSpec == Spec /\ WF_vars(RejectionIgnored \/ RejectionHandled)

----------------------------------------------------------------------------
(* Properties *)

\* the engine has been called for the request and has returned
Returned == mockJson.st = "json"

Profile == req.body.userProfile

\* the request's userProfile is an object whose member is a JSON number
NumericMember(name) == Profile.t = "object" /\ Member(Profile, name).t = "number"

BaseIds == <<"protein", "hydration", "lastMeal", "symptoms", "movement">>

FailedOutcomes == Failures \cup {"malformed"}

\* C1: buildMockAdvice never raises, whatever JSON values userProfile,
\* protocol and doctorNotes are.
C1_EngineNeverFails == mockJson.st # "threw"

\* C2: once the completion call has failed (it raised, or it returned a
\* malformed completion), the request is answered at once with the engine's
\* payload for the request and a _warning, after a single remote call; and
\* only such a fallback carries a _warning.
C2_FallbackOnEveryFailure ==
  /\ completion \in FailedOutcomes =>
       /\ res = <<FallbackResponse(buildMockAdvice(req.body))>>
       /\ mockJson.st = "json"
       /\ remoteCalls = 1
  /\ \A i \in 1..Len(res) : res[i].warning => completion \in FailedOutcomes

\* C3: whenever buildMockAdvice returns, 120 <= proteinG <= 230 and
\* 3 <= hydrationL <= 5.
C3_TargetsInRange ==
  Returned =>
    /\ mockJson.proteinG >= 120 /\ mockJson.proteinG <= 230
    /\ mockJson.hydrationL >= 30 /\ mockJson.hydrationL <= 50

\* a returned payload for a non-numeric weight and a very large goalWeight
C3_Witness ==
  /\ Returned
  /\ Profile.t = "object"
  /\ Profile.weight = JString(TextAbc)
  /\ Profile.goalWeight = JNumber(12000)
  /\ mockJson.proteinG = 230
  /\ mockJson.hydrationL = 30

\* the shape of the returned rules list, given whether the doctor-note rule
\* is expected: the phase rules (one per matching token), the five baseline
\* rules in order, the doctor-note rule last
RulesShape(noteExpected) ==
  LET rules == mockJson.rules
      ff == TestFatFast(mockJson.phase)
      ps == TestPsmf(mockJson.phase)
      k == (IF ff THEN 1 ELSE 0) + (IF ps THEN 1 ELSE 0)
      body == 5 + k
  IN  /\ Len(rules) = body + (IF noteExpected THEN 1 ELSE 0)
      /\ \A i \in 1..5 : rules[k + i].id = BaseIds[i]
      /\ rules[k + 1].n = mockJson.proteinG
      /\ rules[k + 2].n = mockJson.hydrationL
      /\ \A i \in 1..k : rules[i].id \in {"fatFast", "psmf"}
      /\ ff <=> (\E i \in 1..k : rules[i].id = "fatFast")
      /\ ps <=> (\E i \in 1..k : rules[i].id = "psmf")
      /\ noteExpected => rules[Len(rules)].id = "doctor"

\* doctorNotes is not empty: a string or an array with something in it; a
\* number, a boolean or an object counts as the code counts it
NotesNonEmpty(d) ==
  CASE d.t = "string" -> d.s # <<>>
    [] d.t = "array" -> d.a # <<>>
    [] OTHER -> Truthy(d)

\* C4 as stated: for every input the rules are the phase rules, the five
\* baseline rules, and the doctor-note rule last iff doctorNotes is non-empty.
C4_RulesShapeNonEmptyNotes == Returned => RulesShape(NotesNonEmpty(req.body.doctorNotes))

\* C4: for every input the rules are the phase rules (fat-fast iff the phase
\* matches /fat\s*fast/i, PSMF iff it matches /psmf/i), then the five baseline
\* rules in order, then the doctor-note rule last iff doctorNotes is truthy
\* (the empty array included); the length is 5 + matches + (1 if truthy).
C4_RulesShapeTruthyNotes == Returned => RulesShape(Truthy(req.body.doctorNotes))

\* the empty array as doctorNotes gets a doctor-note rule
C4_Witness ==
  /\ Returned
  /\ req.body.doctorNotes = JArray(<<>>)
  /\ TestPsmf(mockJson.phase)
  /\ Len(mockJson.rules) = 7
  /\ mockJson.rules[1].id = "psmf"
  /\ mockJson.rules[7].id = "doctor"

\* both tokens match and no doctor-note rule is due
BothTokens ==
  /\ Returned
  /\ TestFatFast(mockJson.phase)
  /\ TestPsmf(mockJson.phase)
  /\ ~Truthy(req.body.doctorNotes)

\* C5 as stated: with both tokens and no notes there are exactly 7 rules,
\* the fat-fast rule first and the PSMF rule second.
C5_FatFastBeforePsmf ==
  BothTokens =>
    /\ Len(mockJson.rules) = 7
    /\ mockJson.rules[1].id = "fatFast"
    /\ mockJson.rules[2].id = "psmf"
    /\ \A i \in 1..5 : mockJson.rules[2 + i].id = BaseIds[i]

\* C5: with both tokens and no notes there are exactly 7 rules, the PSMF rule
\* first and the fat-fast rule second, then the five baseline rules.
C5_PsmfBeforeFatFast ==
  BothTokens =>
    /\ Len(mockJson.rules) = 7
    /\ mockJson.rules[1].id = "psmf"
    /\ mockJson.rules[2].id = "fatFast"
    /\ \A i \in 1..5 : mockJson.rules[2 + i].id = BaseIds[i]

\* the label "PSMF Fat Fast" has been served
C5_Witness ==
  /\ BothTokens
  /\ req.body.protocol = JString(LabelPsmfFatFast)
  /\ Len(mockJson.rules) = 7

\* p = clamp(round(0.8 * g), 120, 230) for g in tenths, stated without the
\* engine's arithmetic: round(x) is the integer r with r - 0.5 <= x < r + 0.5
IsClampedRound(g, p) ==
  \/ p = 120 /\ 4 * g < 50 * 120 + 25
  \/ p = 230 /\ 4 * g >= 50 * 230 - 25
  \/ p > 120 /\ p < 230 /\ 50 * p - 25 <= 4 * g /\ 4 * g < 50 * p + 25

\* goalWeight is a JSON number in [0, 1000]
GoalInRange ==
  /\ Returned
  /\ NumericMember("goalWeight")
  /\ Profile.goalWeight.n >= 0
  /\ Profile.goalWeight.n <= 10000

\* C6 as stated: for every numeric goalWeight in [0, 1000],
\* proteinG = clamp(round(0.8 * goalWeight), 120, 230); so 0 gives 120.
C6_ProteinFormulaFromZero ==
  GoalInRange => IsClampedRound(Profile.goalWeight.n, mockJson.proteinG)

\* C6: for every numeric goalWeight in (0, 1000],
\* proteinG = clamp(round(0.8 * goalWeight), 120, 230), so 190 gives 152 and
\* 1000 gives 230; goalWeight = 0 is replaced by 190 and gives 152.
C6_ProteinFormulaAboveZero ==
  GoalInRange =>
    IF Profile.goalWeight.n = 0
    THEN mockJson.proteinG = 152
    ELSE IsClampedRound(Profile.goalWeight.n, mockJson.proteinG)

\* goalWeight = 151 has given round(120.8) = 121
C6_Witness ==
  /\ GoalInRange
  /\ Profile.goalWeight.n = 1510
  /\ mockJson.proteinG = 121

\* C7: for numeric weight and goalWeight, hydrationL is 3 or 3.5, and it is
\* 3.5 iff weight - goalWeight > 30.
C7_HydrationUplift ==
  (Returned /\ NumericMember("weight") /\ NumericMember("goalWeight")) =>
    /\ mockJson.hydrationL \in {30, 35}
    /\ mockJson.hydrationL = 35 <=> Profile.weight.n - Profile.goalWeight.n > 300

\* a difference of exactly 30 has given 3
C7_Witness ==
  /\ Returned
  /\ NumericMember("weight")
  /\ NumericMember("goalWeight")
  /\ Profile.weight.n - Profile.goalWeight.n = 300
  /\ mockJson.hydrationL = 30

\* the member is absent, or Number() reads no number from it
AbsentOrNonNumeric(v) == v.t = "undefined" \/ ToNumber(v).k = "nan"

\* the request's body with one member of userProfile replaced
WithMember(name, v) ==
  [req.body EXCEPT !.userProfile =
     IF name = "weight" THEN UObject(v, Profile.goalWeight) ELSE UObject(Profile.weight, v)]

SameTargets(a, b) == a.proteinG = b.proteinG /\ a.hydrationL = b.hydrationL

\* C8: an absent or non-numeric weight gives the targets of weight 255.3, and
\* an absent or non-numeric goalWeight those of goalWeight 190.
C8_NonNumericIsDefault ==
  (Returned /\ Profile.t = "object") =>
    /\ AbsentOrNonNumeric(Profile.weight) =>
         SameTargets(mockJson, buildMockAdvice(WithMember("weight", JNumber(DefaultWeight))))
    /\ AbsentOrNonNumeric(Profile.goalWeight) =>
         SameTargets(mockJson,
                     buildMockAdvice(WithMember("goalWeight", JNumber(DefaultGoalWeight))))

\* the handler has finished, with a response or with an exception
Ended == pc \in {"done", "rejected", "unanswered", "errored"}

\* C9: a request to which mock mode applies never reaches the completion
\* provider and is answered { result: <engine payload> } without _warning;
\* and the client is only dereferenced when it was created.
C9_MockModeAnswersLocally ==
  /\ (pc # "idle" /\ ShouldMock(req.mock)) =>
       /\ remoteCalls = 0
       /\ completion = "none"
       /\ Ended => res = <<MockResponse(buildMockAdvice(req.body))>>
       /\ Ended => mockJson.st = "json"
  /\ clientUses > 0 => openai = "client"

\* C10: every request eventually has exactly one response, never has more
\* than one, and reaches the provider at most once.
C10_ExactlyOneResponse ==
  /\ [](pc # "idle" => <>(Len(res) = 1))
  /\ [](Len(res) <= 1 /\ remoteCalls <= 1)

====
